---- MODULE Spec2Model ----
(***************************************************************************)
(* The OpenReplay MCP server: the call-tool dispatcher of the full-access  *)
(* (JWT, src/src/index.ts) variant and of the organization API-key         *)
(* (src/unnamed/part_000) variant, with the outbound HTTP requests each    *)
(* tool method builds and the ToolResult it returns.                       *)
(***************************************************************************)
EXTENDS Integers, Sequences, FiniteSets, TLC

(***************************************************************************)
(* JavaScript values.  Every value is a record [k, v]: k is the kind and v *)
(* the payload.  A number n is held as v = [d, ms] with                    *)
(* n = d * 86400000 + ms, since epoch milliseconds exceed the integers of  *)
(* the model checker.  An object is the sequence of its [key, val]         *)
(* properties in insertion order.                                          *)
(***************************************************************************)
MsPerDay == 24 * 60 * 60 * 1000

Undefined == [k |-> "undefined", v |-> "undefined"]
Null == [k |-> "null", v |-> "null"]
NaN == [k |-> "NaN", v |-> "NaN"]
Str(s) == [k |-> "string", v |-> s]
Bool(b) == [k |-> "boolean", v |-> b]
Num(n) == [k |-> "number", v |-> [d |-> n \div MsPerDay, ms |-> n % MsPerDay]]
Millis(t) == [k |-> "number", v |-> t]
Arr(s) == [k |-> "array", v |-> s]
Obj(s) == [k |-> "object", v |-> s]
Prop(key, val) == [key |-> key, val |-> val]

\* JavaScript truthiness, as the || and ?: operators of the tool methods test it.
Truthy(x) ==
  CASE x.k = "undefined" -> FALSE
    [] x.k = "null" -> FALSE
    [] x.k = "NaN" -> FALSE
    [] x.k = "string" -> x.v # ""
    [] x.k = "boolean" -> x.v
    [] x.k = "number" -> x.v # [d |-> 0, ms |-> 0]
    [] OTHER -> TRUE

\* a || b
OrElse(a, b) == IF Truthy(a) THEN a ELSE b

\* String(x), as a template literal `${x}` converts x.
ToStr(x) ==
  CASE x.k = "string" -> x.v
    [] x.k = "number" -> IF x.v.d = 0 THEN ToString(x.v.ms) ELSE "<epoch-ms>"
    [] x.k = "boolean" -> IF x.v THEN "true" ELSE "false"
    [] x.k = "array" -> IF x.v = <<>> THEN "" ELSE "<array>"
    [] x.k = "object" -> "[object Object]"
    [] OTHER -> x.k

(***************************************************************************)
(* Time.  An instant is [d, ms]: days since 1970-01-01 and the millisecond *)
(* of that day.                                                            *)
(***************************************************************************)
\* t - n * 24 * 60 * 60 * 1000
MinusDays(t, n) == [d |-> t.d - n, ms |-> t.ms]

PlusMs(t, n) ==
  [d |-> t.d + (t.ms + n) \div MsPerDay, ms |-> (t.ms + n) % MsPerDay]

Pad2(n) == IF n < 10 THEN "0" \o ToString(n) ELSE ToString(n)
Pad3(n) == IF n < 100 THEN "0" \o Pad2(n) ELSE ToString(n)
Pad4(n) == IF n < 1000 THEN "0" \o Pad3(n) ELSE ToString(n)

\* The proleptic Gregorian date of day number d (d >= -719468).
CivilFromDays(d) ==
  LET z == d + 719468
      era == z \div 146097
      doe == z - era * 146097
      yoe == (doe - doe \div 1460 + doe \div 36524 - doe \div 146096) \div 365
      doy == doe - (365 * yoe + yoe \div 4 - yoe \div 100)
      mp == (5 * doy + 2) \div 153
      m == IF mp < 10 THEN mp + 3 ELSE mp - 9
  IN  [y |-> yoe + era * 400 + (IF m <= 2 THEN 1 ELSE 0),
       m |-> m,
       d |-> doy - (153 * mp + 2) \div 5 + 1]

\* new Date(t).toISOString()
ToISOString(t) ==
  LET c == CivilFromDays(t.d)
  IN  Pad4(c.y) \o "-" \o Pad2(c.m) \o "-" \o Pad2(c.d) \o "T"
        \o Pad2(t.ms \div 3600000) \o ":"
        \o Pad2((t.ms \div 60000) % 60) \o ":"
        \o Pad2((t.ms \div 1000) % 60) \o "."
        \o Pad3(t.ms % 1000) \o "Z"

\* The instants a caller's date strings denote.
CallerInstants ==
  { [d |-> 19997, ms |-> 0], [d |-> 20000, ms |-> 45296789] }

\* new Date(s).getTime() of a string value s: the instant whose ISO form s
\* is, NaN for a string that is no date.
GetTime(s) ==
  IF \E t \in CallerInstants : ToISOString(t) = s.v
    THEN Millis(CHOOSE t \in CallerInstants : ToISOString(t) = s.v)
    ELSE NaN

(***************************************************************************)
(* JSON.stringify(value, null, 2).                                         *)
(***************************************************************************)
RECURSIVE Stringify(_, _)
RECURSIVE StringifyItems(_, _)
RECURSIVE StringifyProps(_, _)

\* The properties JSON.stringify keeps: an undefined property is dropped.
Defined(props) == SelectSeq(props, LAMBDA p : p.val.k # "undefined")

StringifyItems(items, ind) ==
  IF Len(items) = 1
    THEN ind \o Stringify(items[1], ind)
    ELSE ind \o Stringify(items[1], ind) \o ",\n" \o StringifyItems(Tail(items), ind)

StringifyProps(props, ind) ==
  LET one == ind \o "\"" \o props[1].key \o "\": " \o Stringify(props[1].val, ind)
  IN  IF Len(props) = 1
        THEN one
        ELSE one \o ",\n" \o StringifyProps(Tail(props), ind)

Stringify(x, ind) ==
  CASE x.k = "string" -> "\"" \o x.v \o "\""
    [] x.k = "number" -> ToStr(x)
    [] x.k = "boolean" -> ToStr(x)
    [] x.k \in {"null", "NaN", "undefined"} -> "null"
    [] x.k = "array" ->
         IF x.v = <<>>
           THEN "[]"
           ELSE "[\n" \o StringifyItems(x.v, ind \o "  ") \o "\n" \o ind \o "]"
    [] x.k = "object" ->
         IF Defined(x.v) = <<>>
           THEN "{}"
           ELSE "{\n" \o StringifyProps(Defined(x.v), ind \o "  ") \o "\n" \o ind \o "}"

(***************************************************************************)
(* Configuration, read once from the process environment.  An environment  *)
(* is a function from the names of the variables that are set to their     *)
(* values.                                                                 *)
(***************************************************************************)
Getenv(env, n) == IF n \in DOMAIN env THEN Str(env[n]) ELSE Undefined

OPENREPLAY_API_URL(env) ==
  OrElse(Getenv(env, "OPENREPLAY_API_URL"), Str("https://api.openreplay.com")).v

OPENREPLAY_API_KEY(env) ==
  OrElse(Getenv(env, "OPENREPLAY_API_KEY"), Str("")).v

OPENREPLAY_PROJECT_ID(env) ==
  OrElse(Getenv(env, "OPENREPLAY_PROJECT_ID"), Str("")).v

OPENREPLAY_PROJECT_KEY(env) ==
  OrElse(Getenv(env, "OPENREPLAY_PROJECT_KEY"),
         OrElse(Getenv(env, "OPENREPLAY_PROJECT_ID"), Str(""))).v

\* The two programs: "jwt" is the full-access server, "apikey" the server
\* for organization API keys.
Variants == {"jwt", "apikey"}

\* The constants and the axios instance of the constructor.
Configure(variant, env) ==
  [baseURL |-> OPENREPLAY_API_URL(env),
   authorization |-> IF variant = "jwt"
                       THEN "Bearer " \o OPENREPLAY_API_KEY(env)
                       ELSE OPENREPLAY_API_KEY(env),
   contentType |-> "application/json",
   project |-> IF variant = "jwt"
                 THEN OPENREPLAY_PROJECT_ID(env)
                 ELSE OPENREPLAY_PROJECT_KEY(env)]

Environments ==
  { [n \in {} |-> ""],
    [n \in {"OPENREPLAY_API_KEY", "OPENREPLAY_PROJECT_ID"} |->
       IF n = "OPENREPLAY_API_KEY" THEN "secret" ELSE "p1"],
    [n \in {"OPENREPLAY_API_URL", "OPENREPLAY_API_KEY", "OPENREPLAY_PROJECT_ID",
            "OPENREPLAY_PROJECT_KEY"} |->
       CASE n = "OPENREPLAY_API_URL" -> "https://or.example"
         [] n = "OPENREPLAY_API_KEY" -> "secret"
         [] n = "OPENREPLAY_PROJECT_ID" -> "p1"
         [] n = "OPENREPLAY_PROJECT_KEY" -> "pk"] }

(***************************************************************************)
(* What a tool method does up to its first suspension: it awaits one       *)
(* outbound request, returns a text, or throws.                            *)
(***************************************************************************)
NoRequest == [method |-> "NONE", url |-> "", payload |-> Undefined]

\* this.api.get(url, {params}) / this.api.post(url, data); payload is
\* Undefined for a get without a config argument.
Request(method, url, payload) == [method |-> method, url |-> url, payload |-> payload]

Await(req) == [tag |-> "await", req |-> req, text |-> "", message |-> ""]
Return(text) == [tag |-> "return", req |-> NoRequest, text |-> text, message |-> ""]
\* A TypeError raised by the method itself.
Throw(message) == [tag |-> "throw", req |-> NoRequest, text |-> "", message |-> message]
\* throw new McpError(ErrorCode.MethodNotFound, ...)
ThrowMcp(message) == [tag |-> "mcp", req |-> NoRequest, text |-> "", message |-> message]

\* args.f of an argument object.
Get(args, f) ==
  IF \E i \in 1..Len(args.v) : args.v[i].key = f
    THEN args.v[CHOOSE i \in 1..Len(args.v) : args.v[i].key = f].val
    ELSE Undefined

\* args.f when args is undefined.
CannotRead(f) == "Cannot read properties of undefined (reading '" \o f \o "')"

\* const { f, ... } = args when args is undefined.
CannotDestructure(f) ==
  "Cannot destructure property '" \o f \o "' of 'args' as it is undefined."

(***************************************************************************)
(* The tool methods of the full-access server.  cfg is the configuration,  *)
(* args the argument value of the request (Undefined when the request      *)
(* carries none), t1 the instant the first clock read of the method        *)
(* returns and t2 the instant the second returns.                          *)
(***************************************************************************)
\* A start default of thirty days.
DefaultStartDate_30(args, t1) ==
  OrElse(Get(args, "startDate"), Str(ToISOString(MinusDays(t1, 30))))

\* startDate: args.startDate || new Date(Date.now() - 7 * 24 * 60 * 60 * 1000).toISOString()
DefaultStartDate(args, t1) ==
  OrElse(Get(args, "startDate"), Str(ToISOString(MinusDays(t1, 7))))

\* endDate: args.endDate || new Date().toISOString()
DefaultEndDate(args, t2) ==
  OrElse(Get(args, "endDate"), Str(ToISOString(t2)))

searchSessions(cfg, args, t1, t2) ==
  IF args.k = "undefined" THEN Throw(CannotRead("startDate")) ELSE
  Await(Request("POST", "/v1/projects/" \o cfg.project \o "/sessions/search",
    Obj(<< Prop("startDate", DefaultStartDate(args, t1)),
           Prop("endDate", DefaultEndDate(args, t2)),
           Prop("filters", OrElse(Get(args, "filters"), Arr(<<>>))),
           Prop("limit", OrElse(Get(args, "limit"), Num(50))),
           Prop("offset", OrElse(Get(args, "offset"), Num(0))),
           Prop("sort", OrElse(Get(args, "sort"),
                  Obj(<< Prop("field", Str("startedAt")),
                         Prop("order", Str("desc")) >>))) >>)))

\* A details method that refuses a missing sessionId itself.
getSessionDetails_validating(cfg, args) ==
  IF args.k = "undefined" THEN Throw(CannotDestructure("sessionId")) ELSE
  IF Get(args, "sessionId").k = "undefined" THEN Throw("sessionId is required") ELSE
  Await(Request("GET",
    "/v1/projects/" \o cfg.project \o "/sessions/" \o ToStr(Get(args, "sessionId")),
    Undefined))

getSessionDetails(cfg, args) ==
  IF args.k = "undefined" THEN Throw(CannotDestructure("sessionId")) ELSE
  Await(Request("GET",
    "/v1/projects/" \o cfg.project \o "/sessions/" \o ToStr(Get(args, "sessionId")),
    Undefined))

getSessionEvents(cfg, args) ==
  IF args.k = "undefined" THEN Throw(CannotDestructure("sessionId")) ELSE
  Await(Request("GET",
    "/v1/projects/" \o cfg.project \o "/sessions/"
       \o ToStr(Get(args, "sessionId")) \o "/events",
    Obj(<< Prop("eventTypes", Get(args, "eventTypes")),
           Prop("startTime", Get(args, "startTime")),
           Prop("endTime", Get(args, "endTime")) >>)))

aggregateSessions(cfg, args, t1, t2) ==
  IF args.k = "undefined" THEN Throw(CannotRead("startDate")) ELSE
  Await(Request("POST", "/v1/projects/" \o cfg.project \o "/sessions/aggregate",
    Obj(<< Prop("startDate", DefaultStartDate(args, t1)),
           Prop("endDate", DefaultEndDate(args, t2)),
           Prop("metrics", Get(args, "metrics")),
           Prop("groupBy", OrElse(Get(args, "groupBy"), Arr(<<>>))),
           Prop("filters", OrElse(Get(args, "filters"), Arr(<<>>))) >>)))

getUserJourney(cfg, args) ==
  IF args.k = "undefined" THEN Throw(CannotDestructure("userId")) ELSE
  Await(Request("GET",
    "/v1/projects/" \o cfg.project \o "/users/"
       \o ToStr(Get(args, "userId")) \o "/journey",
    Obj(<< Prop("startDate", Get(args, "startDate")),
           Prop("endDate", Get(args, "endDate")),
           Prop("includeEvents", Get(args, "includeEvents")) >>)))

getErrorsIssues(cfg, args, t1, t2) ==
  IF args.k = "undefined" THEN Throw(CannotRead("startDate")) ELSE
  Await(Request("POST", "/v1/projects/" \o cfg.project \o "/errors/search",
    Obj(<< Prop("startDate", DefaultStartDate(args, t1)),
           Prop("endDate", DefaultEndDate(args, t2)),
           Prop("errorTypes", OrElse(Get(args, "errorTypes"), Arr(<<>>))),
           Prop("minOccurrences", OrElse(Get(args, "minOccurrences"), Num(1))),
           Prop("groupBy", OrElse(Get(args, "groupBy"), Str("message"))) >>)))

getFunnelAnalysis(cfg, args, t1, t2) ==
  IF args.k = "undefined" THEN Throw(CannotRead("steps")) ELSE
  Await(Request("POST", "/v1/projects/" \o cfg.project \o "/funnels/analyze",
    Obj(<< Prop("steps", Get(args, "steps")),
           Prop("startDate", DefaultStartDate(args, t1)),
           Prop("endDate", DefaultEndDate(args, t2)),
           Prop("filters", OrElse(Get(args, "filters"), Arr(<<>>))) >>)))

getPerformanceMetrics(cfg, args, t1, t2) ==
  IF args.k = "undefined" THEN Throw(CannotRead("startDate")) ELSE
  Await(Request("POST", "/v1/projects/" \o cfg.project \o "/performance/metrics",
    Obj(<< Prop("startDate", DefaultStartDate(args, t1)),
           Prop("endDate", DefaultEndDate(args, t2)),
           Prop("metrics", Get(args, "metrics")),
           Prop("groupBy", OrElse(Get(args, "groupBy"), Arr(<<>>))),
           Prop("percentiles", OrElse(Get(args, "percentiles"),
                  Arr(<< Num(50), Num(75), Num(90), Num(95), Num(99) >>))) >>)))

executeCustomQuery(cfg, args) ==
  IF args.k = "undefined" THEN Throw(CannotDestructure("query")) ELSE
  Await(Request("POST", "/v1/projects/" \o cfg.project \o "/query",
    Obj(<< Prop("query", Get(args, "query")),
           Prop("parameters", OrElse(Get(args, "parameters"), Obj(<<>>))) >>)))

(***************************************************************************)
(* The tool methods of the API-key server.                                 *)
(***************************************************************************)
\* A date bound that is forwarded as the caller wrote it.
EpochOr_verbatim(date, otherwise) == IF Truthy(date) THEN date ELSE otherwise

\* startDate ? new Date(startDate).getTime() : otherwise
EpochOr(date, otherwise) == IF Truthy(date) THEN GetTime(date) ELSE otherwise

SearchNeedsUserId ==
  "Session search requires a userId when using API key authentication. For full search capabilities, JWT authentication is needed."
DetailsUnavailable ==
  "Session replay details are not available via API key authentication. Use get_session_events instead or use JWT authentication for full access."
AggregationUnavailable ==
  "Session aggregation is not available via API key authentication. You can retrieve individual user sessions instead."
ErrorsUnavailable ==
  "Error analysis is not available via API key authentication. JWT authentication is required for this feature."
FunnelUnavailable ==
  "Funnel analysis is not available via API key authentication. JWT authentication is required for this feature."
PerformanceUnavailable ==
  "Performance metrics are not available via API key authentication. JWT authentication is required for this feature."
QueryUnsupported ==
  "Custom queries are not directly supported. Please use the specific search and filter tools instead."

listProjects_key(cfg) == Await(Request("GET", "/api/v1/projects", Undefined))

\* A user-sessions request whose path leaves the project out.
getUserSessions_key_noproject(cfg, args) ==
  IF args.k = "undefined" THEN Throw(CannotDestructure("userId")) ELSE
  Await(Request("GET",
    "/api/v1/users/" \o ToStr(Get(args, "userId")) \o "/sessions",
    Obj(<< Prop("start_date", EpochOr(Get(args, "startDate"), Undefined)),
           Prop("end_date", EpochOr(Get(args, "endDate"), Undefined)) >>)))

getUserSessions_key(cfg, args) ==
  IF args.k = "undefined" THEN Throw(CannotDestructure("userId")) ELSE
  Await(Request("GET",
    "/api/v1/" \o cfg.project \o "/users/" \o ToStr(Get(args, "userId")) \o "/sessions",
    Obj(<< Prop("start_date", EpochOr(Get(args, "startDate"), Undefined)),
           Prop("end_date", EpochOr(Get(args, "endDate"), Undefined)) >>)))

\* A search that does not require a userId.
searchSessions_key_nogate(cfg, args, t1, t2) ==
  IF args.k = "undefined" THEN Throw(CannotRead("userId")) ELSE
  Await(Request("GET",
    "/api/v1/" \o cfg.project \o "/users/" \o ToStr(Get(args, "userId")) \o "/sessions",
    Obj(<< Prop("start_date", EpochOr(Get(args, "startDate"), Millis(MinusDays(t1, 7)))),
           Prop("end_date", EpochOr(Get(args, "endDate"), Millis(t2))) >>)))

searchSessions_key(cfg, args, t1, t2) ==
  IF args.k = "undefined" THEN Throw(CannotRead("userId")) ELSE
  IF ~Truthy(Get(args, "userId")) THEN Return(SearchNeedsUserId) ELSE
  Await(Request("GET",
    "/api/v1/" \o cfg.project \o "/users/" \o ToStr(Get(args, "userId")) \o "/sessions",
    Obj(<< Prop("start_date", EpochOr(Get(args, "startDate"), Millis(MinusDays(t1, 7)))),
           Prop("end_date", EpochOr(Get(args, "endDate"), Millis(t2))) >>)))

getSessionDetails_key(cfg, args) ==
  IF args.k = "undefined" THEN Throw(CannotDestructure("sessionId")) ELSE
  Return(DetailsUnavailable)

getSessionEvents_key(cfg, args) ==
  IF args.k = "undefined" THEN Throw(CannotDestructure("sessionId")) ELSE
  Await(Request("GET",
    "/api/v1/" \o cfg.project \o "/sessions/"
       \o ToStr(Get(args, "sessionId")) \o "/events",
    Undefined))

\* An aggregation that is attempted with the API key.
aggregateSessions_key_calls(cfg, args) ==
  Await(Request("POST", "/api/v1/" \o cfg.project \o "/sessions/aggregate",
    Obj(<< Prop("metrics", IF args.k = "undefined" THEN Undefined
                           ELSE Get(args, "metrics")) >>)))

aggregateSessions_key(cfg, args) == Return(AggregationUnavailable)

\* A journey whose start default is seven days.
getUserJourney_key_7(cfg, args, t1, t2) ==
  IF args.k = "undefined" THEN Throw(CannotDestructure("userId")) ELSE
  Await(Request("GET",
    "/api/v1/" \o cfg.project \o "/users/" \o ToStr(Get(args, "userId")) \o "/sessions",
    Obj(<< Prop("start_date", EpochOr(Get(args, "startDate"), Millis(MinusDays(t1, 7)))),
           Prop("end_date", EpochOr(Get(args, "endDate"), Millis(t2))) >>)))

getUserJourney_key(cfg, args, t1, t2) ==
  IF args.k = "undefined" THEN Throw(CannotDestructure("userId")) ELSE
  Await(Request("GET",
    "/api/v1/" \o cfg.project \o "/users/" \o ToStr(Get(args, "userId")) \o "/sessions",
    Obj(<< Prop("start_date", EpochOr(Get(args, "startDate"), Millis(MinusDays(t1, 30)))),
           Prop("end_date", EpochOr(Get(args, "endDate"), Millis(t2))) >>)))

getErrorsIssues_key(cfg, args) == Return(ErrorsUnavailable)

getFunnelAnalysis_key(cfg, args) == Return(FunnelUnavailable)

getPerformanceMetrics_key(cfg, args) == Return(PerformanceUnavailable)

executeCustomQuery_key(cfg, args) ==
  IF args.k = "undefined" THEN Throw(CannotDestructure("query")) ELSE
  Return(QueryUnsupported)

(***************************************************************************)
(* The tool registry (the names the list-tools handler returns) and the    *)
(* switch of the call-tool handler.                                        *)
(***************************************************************************)
\* A registry that leaves out a tool the switch handles.
ListTools_jwt_short ==
  << "search_sessions", "get_session_details", "get_session_events",
     "aggregate_sessions", "get_user_journey", "get_errors_issues",
     "get_funnel_analysis", "get_performance_metrics" >>

ListTools_jwt ==
  << "search_sessions", "get_session_details", "get_session_events",
     "aggregate_sessions", "get_user_journey", "get_errors_issues",
     "get_funnel_analysis", "get_performance_metrics", "execute_custom_query" >>

ListTools_key ==
  << "list_projects", "get_user_sessions", "search_sessions",
     "get_session_details", "get_session_events", "aggregate_sessions",
     "get_user_journey", "get_errors_issues", "get_funnel_analysis",
     "get_performance_metrics", "execute_custom_query" >>

\* inputSchema.properties of each tool: the arguments it declares.
Properties_jwt(name) ==
  CASE name = "search_sessions" ->
         {"startDate", "endDate", "filters", "limit", "offset", "sort"}
    [] name = "get_session_details" -> {"sessionId"}
    [] name = "get_session_events" -> {"sessionId", "eventTypes", "startTime", "endTime"}
    [] name = "aggregate_sessions" ->
         {"startDate", "endDate", "metrics", "groupBy", "filters"}
    [] name = "get_user_journey" -> {"userId", "startDate", "endDate", "includeEvents"}
    [] name = "get_errors_issues" ->
         {"startDate", "endDate", "errorTypes", "minOccurrences", "groupBy"}
    [] name = "get_funnel_analysis" -> {"steps", "startDate", "endDate", "filters"}
    [] name = "get_performance_metrics" ->
         {"startDate", "endDate", "metrics", "groupBy", "percentiles"}
    [] name = "execute_custom_query" -> {"query", "parameters"}
    [] OTHER -> {}

Properties_key(name) ==
  CASE name = "list_projects" -> {}
    [] name = "get_user_sessions" -> {"userId", "startDate", "endDate"}
    [] name = "search_sessions" ->
         {"userId", "startDate", "endDate", "filters", "limit", "offset", "sort"}
    [] OTHER -> Properties_jwt(name)

Properties(v, name) == IF v = "jwt" THEN Properties_jwt(name) ELSE Properties_key(name)

\* inputSchema.required of each tool.
Required_jwt(name) ==
  CASE name \in {"get_session_details", "get_session_events"} -> {"sessionId"}
    [] name \in {"aggregate_sessions", "get_performance_metrics"} -> {"metrics"}
    [] name = "get_user_journey" -> {"userId"}
    [] name = "get_funnel_analysis" -> {"steps"}
    [] name = "execute_custom_query" -> {"query"}
    [] OTHER -> {}

Required_key(name) ==
  IF name = "get_user_sessions" THEN {"userId"} ELSE Required_jwt(name)

Required(v, name) == IF v = "jwt" THEN Required_jwt(name) ELSE Required_key(name)

ListTools(variant) == IF variant = "jwt" THEN ListTools_jwt ELSE ListTools_key

Declared(variant) == { ListTools(variant)[n] : n \in 1..Len(ListTools(variant)) }

UnknownTool(name) == ThrowMcp("Unknown tool: " \o name)

Switch_jwt(cfg, name, args, t1, t2) ==
  CASE name = "search_sessions" -> searchSessions(cfg, args, t1, t2)
    [] name = "get_session_details" -> getSessionDetails(cfg, args)
    [] name = "get_session_events" -> getSessionEvents(cfg, args)
    [] name = "aggregate_sessions" -> aggregateSessions(cfg, args, t1, t2)
    [] name = "get_user_journey" -> getUserJourney(cfg, args)
    [] name = "get_errors_issues" -> getErrorsIssues(cfg, args, t1, t2)
    [] name = "get_funnel_analysis" -> getFunnelAnalysis(cfg, args, t1, t2)
    [] name = "get_performance_metrics" -> getPerformanceMetrics(cfg, args, t1, t2)
    [] name = "execute_custom_query" -> executeCustomQuery(cfg, args)
    [] OTHER -> UnknownTool(name)

Switch_key(cfg, name, args, t1, t2) ==
  CASE name = "list_projects" -> listProjects_key(cfg)
    [] name = "get_user_sessions" -> getUserSessions_key(cfg, args)
    [] name = "search_sessions" -> searchSessions_key(cfg, args, t1, t2)
    [] name = "get_session_details" -> getSessionDetails_key(cfg, args)
    [] name = "get_session_events" -> getSessionEvents_key(cfg, args)
    [] name = "aggregate_sessions" -> aggregateSessions_key(cfg, args)
    [] name = "get_user_journey" -> getUserJourney_key(cfg, args, t1, t2)
    [] name = "get_errors_issues" -> getErrorsIssues_key(cfg, args)
    [] name = "get_funnel_analysis" -> getFunnelAnalysis_key(cfg, args)
    [] name = "get_performance_metrics" -> getPerformanceMetrics_key(cfg, args)
    [] name = "execute_custom_query" -> executeCustomQuery_key(cfg, args)
    [] OTHER -> UnknownTool(name)

Switch(variant, cfg, name, args, t1, t2) ==
  IF variant = "jwt"
    THEN Switch_jwt(cfg, name, args, t1, t2)
    ELSE Switch_key(cfg, name, args, t1, t2)

(***************************************************************************)
(* Outcomes of the call-tool handler: a ToolResult it returns or the       *)
(* McpError it throws.                                                     *)
(***************************************************************************)
NoOutcome == [kind |-> "none", content |-> <<>>, code |-> "", message |-> ""]

ToolResult(text) ==
  [kind |-> "result", content |-> << [type |-> "text", text |-> text] >>,
   code |-> "", message |-> ""]

McpError(code, message) ==
  [kind |-> "fault", content |-> <<>>, code |-> code, message |-> message]

\* An error text that drops the message.
ErrorText_generic(message) == "Error: Unknown error occurred"

\* `Error: ${error.message || "Unknown error occurred"}`
ErrorText(message) ==
  "Error: " \o (IF message # "" THEN message ELSE "Unknown error occurred")

\* A catch block that converts every error to text.
Catch_swallow(isMcp, message) == ToolResult(ErrorText(message))

\* A catch block that lets every error through to the protocol layer.
Catch_rethrow(isMcp, message) ==
  McpError(IF isMcp THEN "MethodNotFound" ELSE "InternalError", message)

\* A catch block whose content element is of kind "error".
Catch_errorKind(isMcp, message) ==
  IF isMcp
    THEN McpError("MethodNotFound", message)
    ELSE [kind |-> "result",
          content |-> << [type |-> "error", text |-> ErrorText(message)] >>,
          code |-> "", message |-> ""]

\* The catch block of the handler, for an error of class McpError (isMcp)
\* or of any other class.
Catch(isMcp, message) ==
  IF isMcp THEN McpError("MethodNotFound", message) ELSE ToolResult(ErrorText(message))

\* The single text of a result.
Text(out) == out.content[1].text

(***************************************************************************)
(* The requests a client sends and the answers of the remote service.      *)
(***************************************************************************)
MaxTick == 2

\* The clock when the process starts: one millisecond before midnight.
StartInstant == [d |-> 20000, ms |-> MsPerDay - 1]

\* Date.now() when the clock has ticked c times.
Now(c) == PlusMs(StartInstant, c)

Date1 == Str("2024-10-01T00:00:00.000Z")
Date2 == Str("2024-10-04T12:34:56.789Z")

Names == Declared("apikey") \cup {"delete_project"}

ArgSamples ==
  { Undefined,
    Obj(<<>>),
    Obj(<< Prop("userId", Str("u1")) >>),
    Obj(<< Prop("userId", Str("")) >>),
    Obj(<< Prop("userId", Str("u2")), Prop("startDate", Date1),
           Prop("endDate", Date2), Prop("includeEvents", Bool(TRUE)) >>),
    Obj(<< Prop("userId", Str("u1")), Prop("startDate", Str("yesterday")) >>),
    Obj(<< Prop("sessionId", Str("abc")) >>),
    Obj(<< Prop("sessionId", Str("abc")),
           Prop("eventTypes", Arr(<< Str("CLICK"), Str("ERROR") >>)),
           Prop("startTime", Num(1000)), Prop("endTime", Num(2000)) >>),
    Obj(<< Prop("startDate", Date1), Prop("endDate", Date2),
           Prop("limit", Num(0)), Prop("offset", Num(0)),
           Prop("minOccurrences", Num(0)), Prop("percentiles", Arr(<<>>)),
           Prop("groupBy", Str("")) >>),
    Obj(<< Prop("startDate", Str("")), Prop("endDate", Date2),
           Prop("metrics", Arr(<< Str("count") >>)) >>),
    Obj(<< Prop("metrics", Arr(<< Str("count"), Str("error_rate") >>)),
           Prop("groupBy", Arr(<< Str("day") >>)),
           Prop("filters", Arr(<< Obj(<< Prop("type", Str("USER_OS")),
                                        Prop("operator", Str("is")),
                                        Prop("value", Str("iOS")) >>) >>)),
           Prop("percentiles", Arr(<< Num(50), Num(99) >>)),
           Prop("limit", Num(10)), Prop("offset", Num(20)),
           Prop("sort", Obj(<< Prop("field", Str("duration")),
                               Prop("order", Str("asc")) >>)) >>),
    Obj(<< Prop("errorTypes", Arr(<< Str("js_exception") >>)),
           Prop("minOccurrences", Num(5)), Prop("groupBy", Str("url")) >>),
    Obj(<< Prop("steps", Arr(<< Obj(<< Prop("name", Str("signup")),
                                      Prop("type", Str("click")),
                                      Prop("value", Str("#go")) >>) >>)) >>),
    Obj(<< Prop("query", Str("select 1")) >>),
    Obj(<< Prop("query", Str("select x")),
           Prop("parameters", Obj(<< Prop("x", Num(1)) >>)) >>) }

\* response.data of a fulfilled request.
Bodies ==
  { Obj(<< Prop("total", Num(3)) >>),
    Arr(<<>>),
    Str(""),
    Obj(<< Prop("sessions", Arr(<< Obj(<< Prop("sessionId", Str("abc")),
                                         Prop("errorCount", Num(0)) >>) >>)),
           Prop("hasMore", Bool(FALSE)), Prop("cursor", Null) >>) }

\* error.message of a rejected request.
ErrorMessages == { "", "ECONNRESET", "Request failed with status code 404" }

(***************************************************************************)
(* State.                                                                  *)
(*   variant  which of the two servers runs                                *)
(*   config   the configuration constants and the axios instance           *)
(*   clock    the ticks of the wall clock since the start                  *)
(*   calls    per request slot of the transport, the invocation in it:     *)
(*            st      idle, awaiting (suspended at its outbound call),     *)
(*                    returned or thrown                                   *)
(*            name, args   the request parameters                          *)
(*            t1, t2  the clock when the handler was entered and when it   *)
(*                    suspended or finished                                *)
(*            reqs    the outbound requests it has issued, in order        *)
(*            remote  what the remote service answered                     *)
(*            out     the handler's outcome                                *)
(***************************************************************************)
VARIABLES variant, config, clock, calls

vars == << variant, config, clock, calls >>

NoAnswer == [kind |-> "none", data |-> Undefined, message |-> ""]

Idle ==
  [st |-> "idle", name |-> "", args |-> Undefined,
   t1 |-> StartInstant, t2 |-> StartInstant,
   reqs |-> <<>>, remote |-> NoAnswer, out |-> NoOutcome]

\* A handler that builds its outcome and never hands it over.
Finish_hang(call, out) == [call EXCEPT !.out = out]

\* The handler ends with outcome out: it returns a result or throws a fault.
Finish(call, out) ==
  [call EXCEPT !.st = IF out.kind = "fault" THEN "thrown" ELSE "returned",
               !.out = out]

\* A handler that refuses to start while another invocation is in flight.
Started_busy(v, cfg, name, args, t1, t2) ==
  LET step == Switch(v, cfg, name, args, t1, t2)
      call == [Idle EXCEPT !.name = name, !.args = args, !.t1 = t1, !.t2 = t2]
  IN  CASE \E j \in DOMAIN calls : calls[j].st = "awaiting" ->
             Finish(call, ToolResult("Error: busy"))
        [] step.tag = "await" ->
             [call EXCEPT !.st = "awaiting", !.reqs = << step.req >>]
        [] step.tag = "return" -> Finish(call, ToolResult(step.text))
        [] step.tag = "throw" -> Finish(call, Catch(FALSE, step.message))
        [] step.tag = "mcp" -> Finish(call, Catch(TRUE, step.message))

\* The handler from its entry to its first suspension or its end.
Started(v, cfg, name, args, t1, t2) ==
  LET step == Switch(v, cfg, name, args, t1, t2)
      call == [Idle EXCEPT !.name = name, !.args = args, !.t1 = t1, !.t2 = t2]
  IN  CASE step.tag = "await" ->
             [call EXCEPT !.st = "awaiting", !.reqs = << step.req >>]
        [] step.tag = "return" -> Finish(call, ToolResult(step.text))
        [] step.tag = "throw" -> Finish(call, Catch(FALSE, step.message))
        [] step.tag = "mcp" -> Finish(call, Catch(TRUE, step.message))

\* A handler that serializes the whole response instead of its body.
Resolved_response(call, data) ==
  Finish([call EXCEPT !.remote = [kind |-> "data", data |-> data, message |-> ""]],
         ToolResult(Stringify(Obj(<< Prop("status", Num(200)), Prop("data", data) >>), "")))

\* The handler resumed with the response of its request.
Resolved(call, data) ==
  Finish([call EXCEPT !.remote = [kind |-> "data", data |-> data, message |-> ""]],
         ToolResult(Stringify(data, "")))

\* A handler that issues its request again when it is rejected.
Rejected_retry(call, message) ==
  [call EXCEPT !.reqs = Append(@, @[1]),
               !.remote = [kind |-> "error", data |-> Undefined, message |-> message]]

\* The handler resumed with the rejection of its request.
Rejected(call, message) ==
  Finish([call EXCEPT !.remote = [kind |-> "error", data |-> Undefined,
                                 message |-> message]],
         Catch(FALSE, message))

Init ==
  /\ variant \in Variants
  /\ \E env \in Environments : config = Configure(variant, env)
  /\ clock = 0
  /\ calls = [i \in {1} |-> Idle]

\* A call-tool request arrives; the handler runs until it suspends at its
\* outbound call, returns or throws.  The clock may tick meanwhile.
CallTool(i, name, args) ==
  /\ calls[i].st = "idle"
  /\ \E c \in {clock, IF clock < MaxTick THEN clock + 1 ELSE clock} :
       /\ clock' = c
       /\ calls' = [calls EXCEPT
                      ![i] = Started(variant, config, name, args, Now(clock), Now(c))]
  /\ UNCHANGED << variant, config >>

\* A transport that hands a response over only when no earlier slot waits.
Resolve_fifo(i, data) ==
  /\ calls[i].st = "awaiting"
  /\ \A j \in DOMAIN calls : j < i => calls[j].st # "awaiting"
  /\ calls' = [calls EXCEPT ![i] = Resolved(calls[i], data)]
  /\ UNCHANGED << variant, config, clock >>

\* The remote service answers the request of call i.
Resolve(i, data) ==
  /\ calls[i].st = "awaiting"
  /\ calls' = [calls EXCEPT ![i] = Resolved(calls[i], data)]
  /\ UNCHANGED << variant, config, clock >>

\* A failure after which the server drops its credential.
Reject_logout(i, message) ==
  /\ calls[i].st = "awaiting"
  /\ calls' = [calls EXCEPT ![i] = Rejected(calls[i], message)]
  /\ config' = [config EXCEPT !.authorization = ""]
  /\ UNCHANGED << variant, clock >>

\* The request of call i fails: network error, timeout or non-2xx status.
Reject(i, message) ==
  /\ calls[i].st = "awaiting"
  /\ calls' = [calls EXCEPT ![i] = Rejected(calls[i], message)]
  /\ UNCHANGED << variant, config, clock >>

\* The protocol layer sends the outcome of call i; the invocation is gone.
Deliver(i) ==
  /\ calls[i].st \in {"returned", "thrown"}
  /\ calls' = [calls EXCEPT ![i] = Idle]
  /\ UNCHANGED << variant, config, clock >>

Tick ==
  /\ clock < MaxTick
  /\ clock' = clock + 1
  /\ UNCHANGED << variant, config, calls >>

Next ==
  \/ \E i \in DOMAIN calls, name \in Names, args \in ArgSamples : CallTool(i, name, args)
  \/ \E i \in DOMAIN calls, data \in Bodies : Resolve(i, data)
  \/ \E i \in DOMAIN calls, message \in ErrorMessages : Reject(i, message)
  \/ \E i \in DOMAIN calls : Deliver(i)
  \/ Tick

Spec == Init /\ [][Next]_vars

\* The outbound call of some suspended invocation completes, with a response
\* or with an error, and the event loop resumes its handler.
Complete ==
  \E i \in DOMAIN calls :
    \/ \E data \in Bodies : Resolve(i, data)
    \/ \E message \in ErrorMessages : Reject(i, message)

\* The server when every outbound call eventually completes.
SpecLive == Init /\ [][Next]_vars /\ WF_vars(Complete)

(***************************************************************************)
(* The server behind a transport that pipelines requests: up to            *)
(* MaxInFlight invocations are in progress at once and the remote service  *)
(* answers them in any order.  The client sends a request that issues a    *)
(* call with time-derived defaults, one that issues a call in the          *)
(* full-access server and is answered with a notice by the API-key server, *)
(* and one for an undeclared tool.                                         *)
(***************************************************************************)
MaxInFlight == 2

PipelinedRequests ==
  { [name |-> "search_sessions", args |-> Obj(<< Prop("userId", Str("u1")) >>)],
    [name |-> "get_session_details", args |-> Obj(<< Prop("sessionId", Str("abc")) >>)],
    [name |-> "delete_project", args |-> Obj(<<>>)] }

PipelinedBodies == { Obj(<< Prop("total", Num(3)) >>) }

InitPipelined ==
  /\ variant \in Variants
  /\ config = Configure(variant,
       [n \in {"OPENREPLAY_API_KEY", "OPENREPLAY_PROJECT_ID"} |->
          IF n = "OPENREPLAY_API_KEY" THEN "secret" ELSE "p1"])
  /\ clock = 0
  /\ calls = [i \in 1..MaxInFlight |-> Idle]

NextPipelined ==
  \/ \E i \in DOMAIN calls, r \in PipelinedRequests : CallTool(i, r.name, r.args)
  \/ \E i \in DOMAIN calls, data \in PipelinedBodies : Resolve(i, data)
  \/ \E i \in DOMAIN calls : Reject(i, "ECONNRESET")
  \/ \E i \in DOMAIN calls : Deliver(i)
  \/ Tick

SpecPipelined == InitPipelined /\ [][NextPipelined]_vars

(***************************************************************************)
(* Properties.                                                             *)
(***************************************************************************)
Invoked(i) == calls[i].st # "idle"

Finished(i) == calls[i].st \in {"returned", "thrown"}

Absent(args, f) == Get(args, f).k = "undefined"

\* C1: in both variants a call-tool request whose name is not a declared
\* tool name ends with the McpError MethodNotFound thrown to the protocol
\* layer, not with a ToolResult, and issues no outbound request.
C1_UnknownToolFaults ==
  \A i \in DOMAIN calls :
    (Invoked(i) /\ calls[i].name \notin Declared(variant)) =>
      /\ calls[i].st = "thrown"
      /\ calls[i].out = McpError("MethodNotFound", "Unknown tool: " \o calls[i].name)
      /\ calls[i].reqs = <<>>

\* The full-access server is asked for list_projects, which only the
\* API-key server declares.
C1_Witness ==
  \E i \in DOMAIN calls :
    /\ variant = "jwt"
    /\ calls[i].name = "list_projects"
    /\ calls[i].st = "thrown"

\* C2: for every declared tool name, in both variants, the handler never
\* throws: whatever the arguments (also when the request carries none) and
\* whatever the remote answer, it suspends at its request or returns a
\* ToolResult.
C2_DeclaredToolNeverThrows ==
  \A i \in DOMAIN calls :
    (Invoked(i) /\ calls[i].name \in Declared(variant)) =>
      /\ calls[i].st \in {"awaiting", "returned"}
      /\ calls[i].out.kind # "fault"
      /\ calls[i].st = "returned" =>
           /\ calls[i].out.kind = "result"
           /\ Len(calls[i].out.content) = 1

\* A declared tool whose method reads a property of the missing argument
\* object: the TypeError is returned as text.
C2_Witness ==
  \E i \in DOMAIN calls :
    /\ calls[i].name \in Declared(variant)
    /\ calls[i].args = Undefined
    /\ calls[i].st = "returned"
    /\ calls[i].out = ToolResult(ErrorText(CannotDestructure("sessionId")))

\* C3 as stated: when the outbound call rejects with message m the handler
\* returns the single text "Error: " followed by m, for every m, the empty
\* message included.
C3_RejectionTextIsErrorThenMessage ==
  \A i \in DOMAIN calls :
    (Finished(i) /\ calls[i].remote.kind = "error") =>
      calls[i].out = ToolResult("Error: " \o calls[i].remote.message)

\* C3 as amended: when the outbound call rejects with message m the handler
\* does not throw and returns the single text "Error: " followed by m when m
\* is not empty, and "Error: Unknown error occurred" when m is empty.
C3_RejectionTextCarriesMessage ==
  \A i \in DOMAIN calls :
    (Finished(i) /\ calls[i].remote.kind = "error") =>
      /\ calls[i].st = "returned"
      /\ calls[i].out.kind = "result"
      /\ Len(calls[i].out.content) = 1
      /\ calls[i].out.content[1].type = "text"
      /\ Text(calls[i].out) =
           IF calls[i].remote.message = ""
             THEN "Error: Unknown error occurred"
             ELSE "Error: " \o calls[i].remote.message

\* A request was rejected with the empty message and the handler returned.
C3_Witness ==
  \E i \in DOMAIN calls :
    /\ calls[i].st = "returned"
    /\ calls[i].remote.kind = "error"
    /\ calls[i].remote.message = ""
    /\ Len(calls[i].reqs) = 1

\* C4: under the API-key server aggregate_sessions, with any arguments,
\* returns the fixed unsupported text and issues no outbound request.
C4_AggregateGated ==
  \A i \in DOMAIN calls :
    (Invoked(i) /\ variant = "apikey" /\ calls[i].name = "aggregate_sessions") =>
      /\ calls[i].st = "returned"
      /\ calls[i].out = ToolResult(AggregationUnavailable)
      /\ calls[i].reqs = <<>>

\* aggregate_sessions was called with its required metrics under the API key.
C4_Witness ==
  \E i \in DOMAIN calls :
    /\ variant = "apikey"
    /\ calls[i].name = "aggregate_sessions"
    /\ calls[i].args.k = "object"
    /\ ~Absent(calls[i].args, "metrics")
    /\ calls[i].st = "returned"

\* The fixed text of a tool the API-key server does not serve.
GatedText(name) ==
  CASE name = "get_errors_issues" -> ErrorsUnavailable
    [] name = "get_funnel_analysis" -> FunnelUnavailable
    [] name = "get_performance_metrics" -> PerformanceUnavailable
    [] name = "execute_custom_query" -> QueryUnsupported
    [] name = "get_session_details" -> DetailsUnavailable

\* C5: under the API-key server each of get_errors_issues,
\* get_funnel_analysis, get_performance_metrics, execute_custom_query and
\* get_session_details returns its own fixed text, whatever arguments are
\* supplied or omitted, and issues no outbound request.
C5_GatedToolsFixedText ==
  \A i \in DOMAIN calls :
    ( /\ Invoked(i)
      /\ variant = "apikey"
      /\ calls[i].name \in {"get_errors_issues", "get_funnel_analysis",
                            "get_performance_metrics", "execute_custom_query",
                            "get_session_details"} ) =>
      /\ calls[i].st = "returned"
      /\ calls[i].out = ToolResult(GatedText(calls[i].name))
      /\ calls[i].reqs = <<>>

\* C6: under the API-key server search_sessions with an argument object
\* whose userId is missing or falsy returns the fixed text and issues no
\* request; with a userId it issues exactly one GET to the sessions path of
\* that user.
C6_SearchGatedWithoutUserId ==
  \A i \in DOMAIN calls :
    ( /\ Invoked(i)
      /\ variant = "apikey"
      /\ calls[i].name = "search_sessions"
      /\ calls[i].args.k = "object" ) =>
      IF Truthy(Get(calls[i].args, "userId"))
        THEN /\ Len(calls[i].reqs) = 1
             /\ calls[i].reqs[1].method = "GET"
             /\ calls[i].reqs[1].url =
                  "/api/v1/" \o config.project \o "/users/"
                    \o Get(calls[i].args, "userId").v \o "/sessions"
        ELSE /\ calls[i].st = "returned"
             /\ calls[i].out = ToolResult(SearchNeedsUserId)
             /\ calls[i].reqs = <<>>

\* search_sessions was called with an empty userId under the API key.
C6_Witness ==
  \E i \in DOMAIN calls :
    /\ variant = "apikey"
    /\ calls[i].name = "search_sessions"
    /\ calls[i].args.k = "object"
    /\ Get(calls[i].args, "userId") = Str("")
    /\ calls[i].st = "returned"

\* The payload of the only request of call i.
Payload(i) == calls[i].reqs[1].payload

\* C7: calling search_sessions with no arguments produces an outbound
\* request whose date range is the 7 days ending at call time, with limit
\* 50, offset 0 and sort {field: startedAt, order: desc}.
C7_SearchDefaultsWithNoArguments ==
  \A i \in DOMAIN calls :
    ( /\ Invoked(i)
      /\ calls[i].name = "search_sessions"
      /\ calls[i].args \in {Undefined, Obj(<<>>)} ) =>
      /\ Len(calls[i].reqs) = 1
      /\ Payload(i).k = "object"
      /\ Get(Payload(i), "endDate") = Str(ToISOString(calls[i].t2))
      /\ Get(Payload(i), "startDate") = Str(ToISOString(MinusDays(calls[i].t2, 7)))
      /\ Get(Payload(i), "limit") = Num(50)
      /\ Get(Payload(i), "offset") = Num(0)
      /\ Get(Payload(i), "sort") =
           Obj(<< Prop("field", Str("startedAt")), Prop("order", Str("desc")) >>)

JourneyWithoutDates(i) ==
  /\ Invoked(i)
  /\ calls[i].name = "get_user_journey"
  /\ calls[i].args.k = "object"
  /\ Truthy(Get(calls[i].args, "userId"))
  /\ Absent(calls[i].args, "startDate")
  /\ Absent(calls[i].args, "endDate")

\* C9 as stated: get_user_journey called with a userId and no dates issues a
\* request whose date range is defaulted in both variants: the start is the
\* call time minus 7 days in the full-access server and minus 30 days in
\* the API-key server, the end is the call time.
C9_JourneyDatesDefaultedInBothVariants ==
  \A i \in DOMAIN calls :
    JourneyWithoutDates(i) =>
      /\ Len(calls[i].reqs) = 1
      /\ Payload(i).k = "object"
      /\ variant = "jwt" =>
           /\ \/ Get(Payload(i), "startDate") = Str(ToISOString(MinusDays(calls[i].t1, 7)))
              \/ Get(Payload(i), "startDate") = Millis(MinusDays(calls[i].t1, 7))
           /\ \/ Get(Payload(i), "endDate") = Str(ToISOString(calls[i].t2))
              \/ Get(Payload(i), "endDate") = Millis(calls[i].t2)
      /\ variant = "apikey" =>
           /\ Get(Payload(i), "start_date") = Millis(MinusDays(calls[i].t1, 30))
           /\ Get(Payload(i), "end_date") = Millis(calls[i].t2)

\* C9 as amended: get_user_journey called with a userId and no dates issues
\* one GET; the API-key server defaults its range to start = clock read at
\* the call minus 30 days and end = clock read at the call, in epoch
\* milliseconds; the full-access server applies no default and passes
\* startDate and endDate undefined.
C9_JourneyDatesDefaultedOnlyUnderApiKey ==
  \A i \in DOMAIN calls :
    JourneyWithoutDates(i) =>
      /\ Len(calls[i].reqs) = 1
      /\ calls[i].reqs[1].method = "GET"
      /\ Payload(i).k = "object"
      /\ variant = "jwt" =>
           /\ Get(Payload(i), "startDate") = Undefined
           /\ Get(Payload(i), "endDate") = Undefined
      /\ variant = "apikey" =>
           /\ Get(Payload(i), "start_date") = Millis(MinusDays(calls[i].t1, 30))
           /\ Get(Payload(i), "end_date") = Millis(calls[i].t2)

\* The API-key server was asked for the journey of u1 without dates.
C9_Witness ==
  \E i \in DOMAIN calls :
    /\ JourneyWithoutDates(i)
    /\ variant = "apikey"
    /\ calls[i].st = "awaiting"
    /\ Get(Payload(i), "start_date") = Millis([d |-> 19970, ms |-> MsPerDay - 1])

\* C10: every invocation issues at most one outbound request over its whole
\* life, in every outcome: none when it is gated or its tool is unknown,
\* and still one after its request failed.
C10_AtMostOneRequest ==
  \A i \in DOMAIN calls :
    /\ Len(calls[i].reqs) <= 1
    /\ calls[i].st = "thrown" => calls[i].reqs = <<>>
    /\ calls[i].st = "awaiting" => Len(calls[i].reqs) = 1
    /\ calls[i].remote.kind # "none" => Len(calls[i].reqs) = 1

\* A request failed and its invocation has returned.
C10_Witness ==
  \E i \in DOMAIN calls :
    /\ calls[i].st = "returned"
    /\ calls[i].remote.kind = "error"
    /\ calls[i].remote.message = "ECONNRESET"
    /\ Len(calls[i].reqs) = 1

\* C11: when the outbound call succeeds with body B, get_session_details
\* and every other tool that issues a call return a ToolResult whose text is
\* the JSON serialization of exactly B with an indentation of two spaces:
\* the text is a function of B alone, whatever the tool and its arguments.
C11_PassThroughFidelity ==
  \A i \in DOMAIN calls :
    (Finished(i) /\ calls[i].remote.kind = "data") =>
      LET B == calls[i].remote.data
      IN  /\ calls[i].out = ToolResult(Stringify(B, ""))
          /\ B = Obj(<< Prop("total", Num(3)) >>) =>
               Text(calls[i].out) = "{\n  \"total\": 3\n}"
          /\ B = Arr(<<>>) => Text(calls[i].out) = "[]"
          /\ B = Str("") => Text(calls[i].out) = "\"\""

\* The full-access server answered get_session_details of session abc with
\* the body {"total": 3}.
C11_Witness ==
  \E i \in DOMAIN calls :
    /\ variant = "jwt"
    /\ calls[i].name = "get_session_details"
    /\ calls[i].args = Obj(<< Prop("sessionId", Str("abc")) >>)
    /\ calls[i].remote = [kind |-> "data", data |-> Obj(<< Prop("total", Num(3)) >>),
                          message |-> ""]
    /\ calls[i].st = "returned"
    /\ Text(calls[i].out) = "{\n  \"total\": 3\n}"

\* C12: every value the call-tool handler returns, in both variants and in
\* every outcome (success, remote failure, unsupported notice), has one
\* shape: a content sequence of exactly one element, of kind "text", whose
\* text is a string; the element has no other property and the result
\* carries no error code.
C12_UniformResultShape ==
  \A i \in DOMAIN calls :
    calls[i].st = "returned" =>
      /\ calls[i].out.kind = "result"
      /\ Len(calls[i].out.content) = 1
      /\ DOMAIN calls[i].out.content[1] = {"type", "text"}
      /\ calls[i].out.content[1].type = "text"
      /\ calls[i].out.content[1].text \in STRING
      /\ calls[i].out.code = ""
      /\ calls[i].out.message = ""

\* The API-key server returned its notice for get_errors_issues.
C12_Witness ==
  \E i \in DOMAIN calls :
    /\ variant = "apikey"
    /\ calls[i].name = "get_errors_issues"
    /\ calls[i].st = "returned"
    /\ calls[i].out.content = << [type |-> "text", text |-> ErrorsUnavailable] >>

\* The payload fields a method fills from the clock because the caller gave
\* no value for them.
TimeDerived(args) ==
  LET missing(f) == args.k # "object" \/ ~Truthy(Get(args, f))
  IN  (IF missing("startDate") THEN {"startDate", "start_date"} ELSE {})
        \cup (IF missing("endDate") THEN {"endDate", "end_date"} ELSE {})

\* The requests of an invocation without their time-derived defaults.
Shape(call) ==
  [n \in DOMAIN call.reqs |->
     LET req == call.reqs[n]
     IN  [method |-> req.method,
          url |-> req.url,
          payload |-> IF req.payload.k = "object"
                        THEN Obj(SelectSeq(req.payload.v,
                               LAMBDA p : p.key \notin TimeDerived(call.args)))
                        ELSE req.payload]]

\* C13: two invocations of the same tool with the same arguments, whatever
\* was invoked, answered or failed before and whatever else is in flight,
\* issue the same number of requests with the same method, path and payload
\* apart from the time-derived defaults, and an invocation that issues no
\* request ends with the same outcome both times.
C13_SameInvocationSameRequest ==
  \A i, j \in DOMAIN calls :
    ( /\ i # j
      /\ Invoked(i)
      /\ Invoked(j)
      /\ calls[i].name = calls[j].name
      /\ calls[i].args = calls[j].args ) =>
      /\ Len(calls[i].reqs) = Len(calls[j].reqs)
      /\ Shape(calls[i]) = Shape(calls[j])
      /\ calls[i].reqs = <<>> => calls[i].out = calls[j].out

C13_Witness ==
  \E i, j \in DOMAIN calls :
    /\ i # j
    /\ calls[i].name = "search_sessions"
    /\ calls[j].name = "search_sessions"
    /\ calls[i].args = calls[j].args
    /\ calls[i].remote.kind = "error"
    /\ calls[i].st = "returned"
    /\ calls[j].st = "awaiting"
    /\ calls[i].t1 # calls[j].t1
    /\ calls[i].reqs # calls[j].reqs
    /\ Shape(calls[i]) = Shape(calls[j])

\* The arguments a path template takes.
PathArguments == {"sessionId", "userId"}

\* The paths under a project, for the arguments of an invocation.
ProjectPaths(args) ==
  LET sid == ToStr(Get(args, "sessionId"))
      uid == ToStr(Get(args, "userId"))
  IN  { "/sessions/search", "/sessions/" \o sid, "/sessions/" \o sid \o "/events",
        "/sessions/aggregate", "/users/" \o uid \o "/journey",
        "/users/" \o uid \o "/sessions", "/errors/search", "/funnels/analyze",
        "/performance/metrics", "/query" }

\* The path of the request is a template with the configured project in it.
HasProject(i) ==
  /\ calls[i].args.k = "object"
  /\ \E prefix \in {"/v1/projects/", "/api/v1/"}, rest \in ProjectPaths(calls[i].args) :
       calls[i].reqs[1].url = prefix \o config.project \o rest

\* The request carries, under its own name and unchanged, every declared
\* argument of fs that the caller supplied with a truthy value.
Carries(i, fs) ==
  \A f \in fs :
    Truthy(Get(calls[i].args, f)) =>
      /\ Payload(i).k = "object"
      /\ Get(Payload(i), f) = Get(calls[i].args, f)

QueryParams(req) ==
  IF req.payload.k = "object"
    THEN { p.key : p \in { req.payload.v[n] : n \in DOMAIN req.payload.v }
                          \ { q \in { req.payload.v[n] : n \in DOMAIN req.payload.v } :
                                q.val.k \in {"undefined", "null"} } }
    ELSE {}

\* C15: get_session_events issues, in both servers, one GET for the given
\* sessionId; the request carries each of eventTypes, startTime and endTime
\* that the caller supplied, unchanged, and no query parameter for one
\* that is absent.
C15_SessionEventsCarryFilters ==
  \A i \in DOMAIN calls :
    ( /\ Invoked(i)
      /\ calls[i].name = "get_session_events"
      /\ calls[i].args.k = "object"
      /\ Truthy(Get(calls[i].args, "sessionId")) ) =>
      /\ Len(calls[i].reqs) = 1
      /\ calls[i].reqs[1].method = "GET"
      /\ \E prefix \in {"/v1/projects/", "/api/v1/"} :
           calls[i].reqs[1].url =
             prefix \o config.project \o "/sessions/"
               \o Get(calls[i].args, "sessionId").v \o "/events"
      /\ \A f \in {"eventTypes", "startTime", "endTime"} :
           IF Absent(calls[i].args, f)
             THEN f \notin QueryParams(calls[i].reqs[1])
             ELSE /\ f \in QueryParams(calls[i].reqs[1])
                  /\ Get(Payload(i), f) = Get(calls[i].args, f)

\* The names the switch of the running server dispatches to a tool method.
Handled ==
  { n \in Names :
      Switch(variant, config, n, Obj(<<>>), StartInstant, StartInstant).tag # "mcp" }

\* C16: in each server the names that list-tools returns are the names the
\* call-tool switch handles, no name is declared twice, and there are 9 of
\* them in the full-access server and 11 in the API-key server; an
\* invocation is refused as an unknown tool exactly when its name is not
\* declared.
C16_RegistryMatchesSwitch ==
  /\ Declared(variant) = Handled
  /\ Cardinality(Declared(variant)) = Len(ListTools(variant))
  /\ Len(ListTools(variant)) = IF variant = "jwt" THEN 9 ELSE 11
  /\ \A i \in DOMAIN calls :
       Invoked(i) =>
         (calls[i].name \in Declared(variant) <=> calls[i].out.kind # "fault")

C16_Witness ==
  \E i \in DOMAIN calls :
    /\ variant = "apikey"
    /\ calls[i].name = "list_projects"
    /\ calls[i].st = "awaiting"
    /\ calls[i].name \in Declared(variant) \cap Handled
    /\ "list_projects" \notin Declared("jwt")
    /\ Cardinality(Handled) = 11

\* The epoch milliseconds of the two ISO dates the callers use:
\* 2024-10-01T00:00:00.000Z is 1727740800000 and 2024-10-04T12:34:56.789Z
\* is 1728045296789, written as days and milliseconds of the day.
EpochMillis(date) ==
  CASE date = Date1 -> Millis([d |-> 19997, ms |-> 0])
    [] date = Date2 -> Millis([d |-> 20000, ms |-> 45296789])

\* C17: under API-key authentication list_projects, get_user_sessions with
\* a userId and get_session_events with a sessionId each issue exactly one
\* GET and, when it is answered, return the remote body as the text;
\* get_user_sessions sends a supplied ISO startDate or endDate as epoch
\* milliseconds and no bound for an absent one.
C17_ApiKeyToolsAreServed ==
  \A i \in DOMAIN calls :
    LET call == calls[i]
        served ==
          \/ call.name = "list_projects"
          \/ /\ call.name = "get_user_sessions"
             /\ call.args.k = "object"
             /\ Truthy(Get(call.args, "userId"))
          \/ /\ call.name = "get_session_events"
             /\ call.args.k = "object"
             /\ Truthy(Get(call.args, "sessionId"))
    IN  (variant = "apikey" /\ Invoked(i) /\ served) =>
          /\ Len(call.reqs) = 1
          /\ call.reqs[1].method = "GET"
          /\ call.reqs[1].url =
               CASE call.name = "list_projects" -> "/api/v1/projects"
                 [] call.name = "get_user_sessions" ->
                      "/api/v1/" \o config.project \o "/users/"
                        \o Get(call.args, "userId").v \o "/sessions"
                 [] call.name = "get_session_events" ->
                      "/api/v1/" \o config.project \o "/sessions/"
                        \o Get(call.args, "sessionId").v \o "/events"
          /\ call.st = "awaiting" \/ call.remote.kind # "none"
          /\ call.remote.kind = "data" =>
               /\ call.st = "returned"
               /\ call.out = ToolResult(Stringify(call.remote.data, ""))
          /\ call.name = "get_user_sessions" =>
               /\ QueryParams(call.reqs[1]) \subseteq {"start_date", "end_date"}
               /\ \A b \in { <<"startDate", "start_date">>, <<"endDate", "end_date">> } :
                    /\ Absent(call.args, b[1]) => b[2] \notin QueryParams(call.reqs[1])
                    /\ Get(call.args, b[1]) \in {Date1, Date2} =>
                         Get(call.reqs[1].payload, b[2]) = EpochMillis(Get(call.args, b[1]))

C17_Witness ==
  \E i \in DOMAIN calls :
    /\ variant = "apikey"
    /\ calls[i].name = "get_user_sessions"
    /\ calls[i].st = "returned"
    /\ calls[i].remote.kind = "data"
    /\ Get(calls[i].args, "userId") = Str("u2")
    /\ Get(calls[i].args, "startDate") = Date1
    /\ Get(Payload(i), "start_date") = Millis([d |-> 19997, ms |-> 0])
    /\ Get(Payload(i), "end_date") = Millis([d |-> 20000, ms |-> 45296789])
    /\ calls[i].out = ToolResult(Stringify(calls[i].remote.data, ""))

\* C18: no step of any invocation, whether it succeeds, fails remotely,
\* answers with a notice or is refused as an unknown tool, changes the base
\* URL, the credential, the content type or the project identifier: they
\* are at all times the ones the constructor established from the
\* environment.
C18_ConfigurationIsReadOnly ==
  /\ [](\E env \in Environments : config = Configure(variant, env))
  /\ [][config' = config /\ variant' = variant]_vars

C18_Witness ==
  \E i \in DOMAIN calls :
    /\ variant = "jwt"
    /\ calls[i].st = "returned"
    /\ calls[i].remote.kind = "error"
    /\ clock = MaxTick
    /\ config = [baseURL |-> "https://or.example", authorization |-> "Bearer secret",
                 contentType |-> "application/json", project |-> "p1"]

\* C19: when every outbound call eventually completes, an invocation
\* suspended at its call eventually returns a ToolResult.  An invocation
\* that issues no call is finished by the step that started it, a suspended
\* one has no outcome, and it leaves its suspension only by the response
\* or the error of its call, so it yields nothing if the call never
\* completes.
C19_ResultFollowsCompletion ==
  /\ [](\A i \in {1} :
          /\ (Invoked(i) /\ calls[i].reqs = <<>>) => Finished(i)
          /\ calls[i].st = "awaiting" =>
               /\ calls[i].out = NoOutcome
               /\ calls[i].remote = NoAnswer
               /\ calls[i].name \in Declared(variant)
          /\ (Finished(i) /\ calls[i].name \in Declared(variant)) =>
               calls[i].out.kind = "result"
          /\ (Finished(i) /\ calls[i].reqs # <<>>) => calls[i].remote.kind # "none")
  /\ [][\A i \in {1} :
          (calls[i].st = "awaiting" /\ calls'[i].st # "awaiting") =>
            /\ calls'[i].st = "returned"
            /\ calls'[i].remote.kind \in {"data", "error"}]_vars
  /\ \A i \in {1} :
       calls[i].st = "awaiting" ~> (calls[i].st = "returned" /\ calls[i].out.kind = "result")

C19_Witness ==
  \E i \in DOMAIN calls :
    /\ variant = "jwt"
    /\ calls[i].name = "get_funnel_analysis"
    /\ calls[i].st = "returned"
    /\ calls[i].remote.kind = "error"
    /\ calls[i].remote.message = "Request failed with status code 404"
    /\ Text(calls[i].out) = "Error: Request failed with status code 404"

\* C20: with several invocations suspended at their outbound calls at once
\* and answered in any order, the request of each is the one its own name
\* and arguments determine, its result is the serialization of the response
\* to its own request or the text of its own error, a step that changes one
\* invocation leaves every other as it was, and the response of a
\* suspended invocation can be handed over whatever the others are doing.
C20_PipelinedInvocationsDoNotInterfere ==
  /\ [](\A i \in DOMAIN calls :
          /\ (Invoked(i) /\ calls[i].reqs # <<>>) =>
               calls[i].reqs = << Switch(variant, config, calls[i].name, calls[i].args,
                                         calls[i].t1, calls[i].t2).req >>
          /\ (Finished(i) /\ calls[i].remote.kind = "data") =>
               calls[i].out = ToolResult(Stringify(calls[i].remote.data, ""))
          /\ (Finished(i) /\ calls[i].remote.kind = "error") =>
               calls[i].out = ToolResult("Error: " \o calls[i].remote.message)
          /\ calls[i].st = "awaiting" =>
               /\ ENABLED Resolve(i, Arr(<<>>))
               /\ ENABLED Reject(i, "ECONNRESET"))
  /\ [][\A i, j \in DOMAIN calls :
          (i # j /\ calls'[i] # calls[i]) => calls'[j] = calls[j]]_vars

C20_Witness ==
  \E i, j \in DOMAIN calls :
    /\ variant = "jwt"
    /\ calls[i].name = "get_session_details"
    /\ calls[i].st = "awaiting"
    /\ calls[i].t1 = Now(0)
    /\ calls[j].name = "search_sessions"
    /\ calls[j].t1 = Now(1)
    /\ calls[j].st = "returned"
    /\ calls[j].remote.kind = "error"
    /\ Text(calls[j].out) = "Error: ECONNRESET"

\* C21: in the full-access server a default is applied only to an absent
\* optional field: every declared value the caller supplies, a limit,
\* offset or minOccurrences of 0, an empty string date and an empty
\* percentiles list included, is in the outbound request under its own name
\* and unchanged.
C21_SuppliedValuesReachRequestUnchanged ==
  \A i \in DOMAIN calls :
    ( /\ variant = "jwt"
      /\ Invoked(i)
      /\ calls[i].reqs # <<>>
      /\ calls[i].args.k = "object" ) =>
      \A f \in Properties(variant, calls[i].name) \ PathArguments :
        ~Absent(calls[i].args, f) =>
          /\ Payload(i).k = "object"
          /\ Get(Payload(i), f) = Get(calls[i].args, f)

\* The tools the API-key server answers with a notice instead of a call.
AnsweredWithNotice ==
  IF variant = "apikey"
    THEN {"get_session_details", "aggregate_sessions", "get_errors_issues",
          "get_funnel_analysis", "get_performance_metrics", "execute_custom_query"}
    ELSE {}

\* C22: a declared tool invoked with an argument object that lacks a field
\* its schema marks required is not refused locally: unless the tool is one
\* the API-key server answers with a notice, exactly one outbound request
\* is issued, with the text undefined in the path where a missing
\* sessionId or userId goes and no value for a missing body field, the
\* invocation never throws, and its result is the serialized response or
\* the text of the remote error.
C22_MissingRequiredFieldStillCalls ==
  \A i \in DOMAIN calls :
    LET call == calls[i]
        missing == { f \in Required(variant, call.name) : Absent(call.args, f) }
    IN  ( /\ Invoked(i)
          /\ call.name \in Declared(variant) \ AnsweredWithNotice
          /\ call.args.k = "object"
          /\ missing # {} ) =>
          /\ Len(call.reqs) = 1
          /\ \A f \in missing :
               IF f \in PathArguments
                 THEN \E prefix \in {"/v1/projects/", "/api/v1/"},
                         rest \in {"/sessions/undefined", "/sessions/undefined/events",
                                   "/users/undefined/journey", "/users/undefined/sessions"} :
                        call.reqs[1].url = prefix \o config.project \o rest
                 ELSE /\ call.reqs[1].payload.k = "object"
                      /\ f \notin QueryParams(call.reqs[1])
          /\ call.st \in {"awaiting", "returned"}
          /\ call.st = "awaiting" <=> call.remote.kind = "none"
          /\ call.remote.kind = "data" =>
               call.out = ToolResult(Stringify(call.remote.data, ""))
          /\ call.remote.kind = "error" =>
               call.out = ToolResult(ErrorText(call.remote.message))

C22_Witness ==
  \E i \in DOMAIN calls :
    /\ variant = "jwt"
    /\ config.project = "p1"
    /\ calls[i].name = "get_session_details"
    /\ calls[i].args = Obj(<<>>)
    /\ calls[i].st = "returned"
    /\ calls[i].reqs = << Request("GET", "/v1/projects/p1/sessions/undefined", Undefined) >>
    /\ calls[i].remote.kind = "error"
    /\ Text(calls[i].out) = "Error: Request failed with status code 404"

====
